---- MODULE Spec2Model ----
(***************************************************************************)
(* A model of the eaterate library (src/eaterate): the Option type, the    *)
(* Eaterator contract, the adapters of core.py, the range of erange.py and *)
(* the custom source of test.py.                                           *)
(*                                                                         *)
(* Objects live in a heap (a sequence of records, an object's id being its *)
(* index); next(h, id) is the method `next` of object id evaluated on heap *)
(* h: it returns the heap after the call and the Option returned.          *)
(* The field adv of an object is a history counter: the number of times    *)
(* its owner has called next on it.                                        *)
(***************************************************************************)
EXTENDS Integers, Sequences, FiniteSets, TLC

\* ------------------------------------------------------------------ bounds
MaxLen == 3        \* longest list a source is built from
MaxArgLen == 2     \* longest list passed as argument to chain / zip
MaxN == 3          \* largest count / index / step / window size
MaxNone == 2       \* the client stops advancing after this many absents
MaxTerm == 2       \* terminal consumers the client calls on one Eaterator
MaxStop == 4       \* largest start / stop of a range
MaxAdv == 6        \* the client advances an unbounded range this often
MaxOuter == 3      \* longest list of lists that is flattened
MaxRefs == 3       \* Options the client of Option holds

Vals == {0, 1}
Seps == {88}

RECURSIVE SeqsUpTo(_, _)
SeqsUpTo(S, n) ==
    IF n = 0 THEN {<<>>}
    ELSE LET P == SeqsUpTo(S, n - 1)
         IN  P \cup {Append(s, v) : s \in {p \in P : Len(p) = n - 1}, v \in S}

\* The lists of the documented examples: core.py:187 (step_by), core.py:143
\* (range(10)) and the indexing example [10, 20, 30, 40].
ExampleLists ==
    {<<0, 1, 2, 3, 4, 5>>, <<0, 1, 2, 3, 4, 5, 6, 7, 8, 9>>, <<10, 20, 30, 40>>}

Lists == SeqsUpTo(Vals, MaxLen) \cup ExampleLists
ArgLists == SeqsUpTo(Vals, MaxArgLen)
\* The lists passed as second argument of a chain of two.
ShortLists == {<<>>} \cup {<<v>> : v \in Vals}

Min(a, b) == IF a < b THEN a ELSE b
Max(a, b) == IF a > b THEN a ELSE b

\* ------------------------------------------------------------------ Option
\* Option.none() / Option.some(d): an Option is <<>> or <<d>>.
None == <<>>
Some(d) == <<d>>
is_none(o) == Len(o) = 0
is_some(o) == Len(o) = 1
unwrap_(o) == o[1]

\* The callbacks the client passes: lambda x: x, lambda x: x + 1, tests of
\* parity, lambda x: False, and bool (a list is true when it is not empty, an
\* Eaterator always).
Apply(f, v) ==
    CASE f = "identity" -> v
      [] f = "inc"      -> v + 1
      [] f = "even"     -> v % 2 = 0
      [] f = "odd"      -> v % 2 = 1
      [] f = "never"    -> FALSE
      [] f = "bool"     -> IF v.py = "list" THEN v.items # <<>> ELSE TRUE

\* Option.map: r is the Option returned, called the number of calls of fn made.
Option_map(o, f) ==
    IF is_some(o) THEN [r |-> Some(Apply(f, unwrap_(o))), called |-> 1]
    ELSE [r |-> o, called |-> 0]

\* ------------------------------------------------------------------ next
RECURSIVE next(_, _)
RECURSIVE next_map_eater(_, _)

\* Eaterator.__next__: the iterator protocol on top of next.
Eaterator_next__(h, id) ==
    LET c == next(h, id)
    IN  IF is_some(c.r) THEN [h |-> c.h, stop |-> FALSE, v |-> unwrap_(c.r)]
        ELSE [h |-> c.h, stop |-> TRUE, v |-> 0]

\* __next__ of the wrapped host iterator: a list iterator, or an Eaterator.
it_next__(h, id) ==
    LET it == h[id].it
    IN  IF it.py = "list_iterator"
        THEN IF it.pos < Len(it.items)
             THEN [h |-> [h EXCEPT ![id].it.pos = @ + 1], stop |-> FALSE,
                   v |-> it.items[it.pos + 1]]
             ELSE [h |-> h, stop |-> TRUE, v |-> 0]
        ELSE Eaterator_next__(h, it.id)

BuiltinItEaterator_next(h, id) ==
    LET c == it_next__(h, id)
    IN  IF c.stop THEN [h |-> c.h, r |-> None] ELSE [h |-> c.h, r |-> Some(c.v)]

\* The stop of a range is an int or float("inf"): i >= stop on it.
IntStop(k) == [inf |-> FALSE, v |-> k]
float_inf == [inf |-> TRUE, v |-> 0]
ge(i, stop) == ~stop.inf /\ i >= stop.v

\* Variant: the cursor is compared with the bound by > instead of >=.
ERange_next_Closed(h, id) ==
    IF ~h[id].stop.inf /\ h[id].i > h[id].stop.v THEN [h |-> h, r |-> None]
    ELSE [h |-> [h EXCEPT ![id].i = @ + 1], r |-> Some(h[id].i)]

ERange_next(h, id) ==
    IF ge(h[id].i, h[id].stop) THEN [h |-> h, r |-> None]
    ELSE [h |-> [h EXCEPT ![id].i = @ + 1], r |-> Some(h[id].i)]

ChocolateEaterator_next(h, id) ==
    IF h[id].n <= 0 THEN [h |-> h, r |-> None]
    ELSE [h |-> [h EXCEPT ![id].n = @ - 1], r |-> Some("chocolate")]

\* Variant: fn is called on every result of upstream, absent included, and its
\* value is dropped for absent.
MapEaterator_next_CallsOnAbsent(h, id) ==
    LET c == next(h, h[id].eat)
    IN  [h |-> [c.h EXCEPT ![id].fcalls = @ + 1],
         r |-> Option_map(c.r, h[id].f).r]

MapEaterator_next(h, id) ==
    LET c == next(h, h[id].eat)
        m == Option_map(c.r, h[id].f)
    IN  [h |-> [c.h EXCEPT ![id].fcalls = @ + m.called], r |-> m.r]

\* Variant: the counter restarts at 0, not 1, after an element is returned.
StepByEaterator_next_NoSkip(h, id) ==
    LET c == next(h, h[id].eat)
    IN  [h |-> [c.h EXCEPT ![id].i = 0], r |-> c.r]

\* Variant: an advance that falls between two steps returns absent instead of
\* going on to the next element.
StepByEaterator_next_AbsentBetween(h, id) ==
    LET c == next(h, h[id].eat)
    IN  IF c.h[id].i = 0
        THEN [h |-> [c.h EXCEPT ![id].i = 1], r |-> c.r]
        ELSE [h |-> [c.h EXCEPT ![id].i = (@ + 1) % c.h[id].step], r |-> None]

\* (i + 1) % 0 raises ZeroDivisionError, after the upstream was advanced: the
\* result then has a field err.
RECURSIVE StepByEaterator_next(_, _)
StepByEaterator_next(h, id) ==
    LET c == next(h, h[id].eat)
    IN  IF c.h[id].i = 0
        THEN [h |-> [c.h EXCEPT ![id].i = 1], r |-> c.r]
        ELSE IF c.h[id].step = 0
        THEN [h |-> c.h, r |-> None, err |-> "ZeroDivisionError"]
        ELSE StepByEaterator_next(
                 [c.h EXCEPT ![id].i = (@ + 1) % c.h[id].step], id)

\* Variant: the advance on which a ends reports absent instead of going on to b.
ChainEaterator_next_StopsAtA(h, id) ==
    IF ~h[id].d
    THEN LET c == next(h, h[id].a)
         IN  IF is_none(c.r)
             THEN [h |-> [c.h EXCEPT ![id].d = TRUE], r |-> None]
             ELSE c
    ELSE next(h, h[id].b)

\* Variant: there is no done flag, a is asked again on every advance.
ChainEaterator_next_ReconsultsA(h, id) ==
    LET c == next(h, h[id].a)
    IN  IF is_none(c.r) THEN next(c.h, h[id].b) ELSE c

ChainEaterator_next(h, id) ==
    IF ~h[id].d
    THEN LET c == next(h, h[id].a)
         IN  IF is_none(c.r)
             THEN next([c.h EXCEPT ![id].d = TRUE], h[id].b)
             ELSE c
    ELSE next(h, h[id].b)

\* Variant: the pair is built the wrong way round.
ZipEaterator_next_Swapped(h, id) ==
    LET a == next(h, h[id].a)
        b == next(a.h, h[id].b)
    IN  IF is_some(a.r) /\ is_some(b.r)
        THEN [h |-> b.h, r |-> Some(<<unwrap_(b.r), unwrap_(a.r)>>)]
        ELSE [h |-> b.h, r |-> None]

\* Variant: b is not advanced when a returned absent.
ZipEaterator_next_StopsAtAbsentA(h, id) ==
    LET a == next(h, h[id].a)
        b == next(a.h, h[id].b)
    IN  IF is_none(a.r) THEN [h |-> a.h, r |-> None]
        ELSE IF is_some(b.r)
        THEN [h |-> b.h, r |-> Some(<<unwrap_(a.r), unwrap_(b.r)>>)]
        ELSE [h |-> b.h, r |-> None]

ZipEaterator_next(h, id) ==
    LET a == next(h, h[id].a)
        b == next(a.h, h[id].b)
    IN  IF is_some(a.r) /\ is_some(b.r)
        THEN [h |-> b.h, r |-> Some(<<unwrap_(a.r), unwrap_(b.r)>>)]
        ELSE [h |-> b.h, r |-> None]

\* Variant: the separator is emitted whenever the flag is set, also after the
\* last element.
IntersperseEaterator_next_Trailing(h, id) ==
    IF h[id].emits
    THEN [h |-> [h EXCEPT ![id].emits = FALSE], r |-> Some(h[id].sep)]
    ELSE IF is_none(h[id].last) THEN [h |-> h, r |-> None]
    ELSE LET c == next(h, h[id].eat)
         IN  [h |-> [c.h EXCEPT ![id].emits = TRUE, ![id].last = c.r],
              r |-> h[id].last]

IntersperseEaterator_next(h, id) ==
    IF is_none(h[id].last) THEN [h |-> h, r |-> None]
    ELSE IF h[id].emits
    THEN [h |-> [h EXCEPT ![id].emits = FALSE], r |-> Some(h[id].sep)]
    ELSE LET c == next(h, h[id].eat)
         IN  [h |-> [c.h EXCEPT ![id].emits = TRUE, ![id].last = c.r],
              r |-> h[id].last]

\* Variant: the predicate is asked again about the element it returns.
RECURSIVE FilterEaterator_next_AsksTwice(_, _)
FilterEaterator_next_AsksTwice(h, id) ==
    LET c == next(h, h[id].eat)
    IN  IF is_none(c.r) THEN c
        ELSE IF Apply(h[id].f, unwrap_(c.r))
        THEN [h |-> [c.h EXCEPT ![id].fcalls = @ + 2], r |-> c.r]
        ELSE FilterEaterator_next_AsksTwice(
                 [c.h EXCEPT ![id].fcalls = @ + 1], id)

RECURSIVE FilterEaterator_next(_, _)
FilterEaterator_next(h, id) ==
    LET c == next(h, h[id].eat)
    IN  IF is_none(c.r) THEN c
        ELSE IF Apply(h[id].f, unwrap_(c.r))
        THEN [h |-> [c.h EXCEPT ![id].fcalls = @ + 1], r |-> c.r]
        ELSE FilterEaterator_next([c.h EXCEPT ![id].fcalls = @ + 1], id)

\* Variant: the element that fails the predicate ends the call with absent.
FilterEaterator_next_body_GivesUp(h, id) ==
    LET c == next(h, h[id].eat)
    IN  IF is_none(c.r) THEN [h |-> c.h, r |-> c.r, again |-> FALSE]
        ELSE IF Apply(h[id].f, unwrap_(c.r))
        THEN [h |-> [c.h EXCEPT ![id].fcalls = @ + 1], r |-> c.r,
              again |-> FALSE]
        ELSE [h |-> [c.h EXCEPT ![id].fcalls = @ + 1], r |-> None,
              again |-> FALSE]

\* One pass through the body of FilterEaterator.next: again says that it ends
\* in the recursive call `return self.next()`, else r is what is returned.
FilterEaterator_next_body(h, id) ==
    LET c == next(h, h[id].eat)
    IN  IF is_none(c.r) THEN [h |-> c.h, r |-> c.r, again |-> FALSE]
        ELSE IF Apply(h[id].f, unwrap_(c.r))
        THEN [h |-> [c.h EXCEPT ![id].fcalls = @ + 1], r |-> c.r,
              again |-> FALSE]
        ELSE [h |-> [c.h EXCEPT ![id].fcalls = @ + 1], r |-> None,
              again |-> TRUE]

EnumerateEaterator_next(h, id) ==
    LET c == next(h, h[id].eat)
    IN  IF is_none(c.r) THEN [h |-> c.h, r |-> None]
        ELSE [h |-> [c.h EXCEPT ![id].i = @ + 1],
              r |-> Some(<<h[id].i, unwrap_(c.r)>>)]

\* Variant: the pair holds the refilled lookahead as its current value.
PeekedEaterator_next_Late(h, id) ==
    IF is_none(h[id].next) THEN [h |-> h, r |-> None]
    ELSE LET c == next(h, h[id].eat)
         IN  [h |-> [c.h EXCEPT ![id].next = c.r],
              r |-> IF is_none(c.r) THEN Some(<<unwrap_(h[id].next), c.r>>)
                    ELSE Some(<<unwrap_(c.r), c.r>>)]

PeekedEaterator_next(h, id) ==
    IF is_none(h[id].next) THEN [h |-> h, r |-> None]
    ELSE LET c == next(h, h[id].eat)
         IN  [h |-> [c.h EXCEPT ![id].next = c.r],
              r |-> Some(<<unwrap_(h[id].next), c.r>>)]

\* Variant: the countdown stops one early, at 1.
RECURSIVE SkipEaterator_next_OneShort(_, _)
SkipEaterator_next_OneShort(h, id) ==
    LET c == next(h, h[id].eat)
    IN  IF c.h[id].n <= 1 THEN [h |-> [c.h EXCEPT ![id].n = 0], r |-> c.r]
        ELSE SkipEaterator_next_OneShort([c.h EXCEPT ![id].n = @ - 1], id)

RECURSIVE SkipEaterator_next(_, _)
SkipEaterator_next(h, id) ==
    LET c == next(h, h[id].eat)
    IN  IF c.h[id].n = 0 THEN c
        ELSE SkipEaterator_next([c.h EXCEPT ![id].n = @ - 1], id)

\* Variant: upstream is advanced before the countdown is looked at.
TakeEaterator_next_PullsFirst(h, id) ==
    LET c == next(h, h[id].eat)
    IN  IF h[id].n = 0 THEN [h |-> c.h, r |-> None]
        ELSE [h |-> [c.h EXCEPT ![id].n = @ - 1], r |-> c.r]

TakeEaterator_next(h, id) ==
    IF h[id].n = 0 THEN [h |-> h, r |-> None]
    ELSE next([h EXCEPT ![id].n = @ - 1], h[id].eat)

\* Variant: the buffer is refilled before its oldest element is dropped, and
\* the newest one is dropped instead.
WindowsEaterator_next_PopsRight(h, id) ==
    IF Len(h[id].d) < h[id].windows THEN [h |-> h, r |-> None]
    ELSE IF h[id].d = <<>> THEN [h |-> h, r |-> None, err |-> "IndexError"]
    ELSE LET memo == h[id].d
             c == next(h, h[id].eat)
         IN  [h |-> IF is_some(c.r)
                    THEN [c.h EXCEPT ![id].d =
                              Append(SubSeq(@, 1, Len(@) - 1), unwrap_(c.r))]
                    ELSE [c.h EXCEPT ![id].d = SubSeq(@, 1, Len(@) - 1)],
              r |-> Some(memo)]

\* popleft() of an empty deque raises IndexError, before upstream is asked.
WindowsEaterator_next(h, id) ==
    IF Len(h[id].d) < h[id].windows THEN [h |-> h, r |-> None]
    ELSE IF h[id].d = <<>> THEN [h |-> h, r |-> None, err |-> "IndexError"]
    ELSE LET memo == h[id].d
             c == next([h EXCEPT ![id].d = Tail(@)], h[id].eat)
         IN  [h |-> IF is_some(c.r)
                    THEN [c.h EXCEPT ![id].d = Append(@, unwrap_(c.r))]
                    ELSE c.h,
              r |-> Some(memo)]

\* Variant: an inner sequence that ends makes flatten report absent.
RECURSIVE FlattenEaterator_next_StopsAtInnerEnd(_, _)
FlattenEaterator_next_StopsAtInnerEnd(h, id) ==
    IF is_none(h[id].cur)
    THEN LET x == next_map_eater(h, h[id].eat)
         IN  IF is_none(x.r) THEN [h |-> x.h, r |-> None]
             ELSE FlattenEaterator_next_StopsAtInnerEnd(
                      [x.h EXCEPT ![id].cur = x.r], id)
    ELSE LET x == next(h, unwrap_(h[id].cur))
         IN  IF is_none(x.r)
             THEN [h |-> [x.h EXCEPT ![id].cur = None], r |-> None]
             ELSE x

RECURSIVE FlattenEaterator_next(_, _)
FlattenEaterator_next(h, id) ==
    IF is_none(h[id].cur)
    THEN LET x == next_map_eater(h, h[id].eat)
         IN  IF is_none(x.r) THEN [h |-> x.h, r |-> None]
             ELSE FlattenEaterator_next([x.h EXCEPT ![id].cur = x.r], id)
    ELSE LET x == next(h, unwrap_(h[id].cur))
         IN  IF is_none(x.r)
             THEN FlattenEaterator_next([x.h EXCEPT ![id].cur = None], id)
             ELSE x

\* Dynamic dispatch of obj.next(), counting the call.
next(h, id) ==
    LET g == [h EXCEPT ![id].adv = @ + 1]
        k == h[id].kind
    IN  CASE k = "BuiltinIt"   -> BuiltinItEaterator_next(g, id)
          [] k = "ERange"      -> ERange_next(g, id)
          [] k = "Chocolate"   -> ChocolateEaterator_next(g, id)
          [] k = "Map"         -> MapEaterator_next(g, id)
          [] k = "StepBy"      -> StepByEaterator_next(g, id)
          [] k = "Chain"       -> ChainEaterator_next(g, id)
          [] k = "Zip"         -> ZipEaterator_next(g, id)
          [] k = "Intersperse" -> IntersperseEaterator_next(g, id)
          [] k = "Filter"      -> FilterEaterator_next(g, id)
          [] k = "Enumerate"   -> EnumerateEaterator_next(g, id)
          [] k = "Peeked"      -> PeekedEaterator_next(g, id)
          [] k = "Skip"        -> SkipEaterator_next(g, id)
          [] k = "Take"        -> TakeEaterator_next(g, id)
          [] k = "Windows"     -> WindowsEaterator_next(g, id)
          [] k = "Flatten"     -> FlattenEaterator_next(g, id)

\* ------------------------------------------------------------ construction
\* Allocation of a new object: its id is the next index of the heap.
\* err is the exception the call raised, "" when it returned.
New(h, obj) == [h |-> Append(h, obj), id |-> Len(h) + 1, err |-> ""]

\* A call that raises exception e on heap h and so returns no object.
Raise(h, e) == [h |-> h, id |-> 0, err |-> e]

\* What the host language answers for hasattr(it, "__next__"), isinstance(it,
\* Eaterator) and hasattr(it, "__iter__"). A client value x is a list
\* ([py |-> "list", items]), a list iterator or an Eaterator of the heap
\* ([py |-> "eaterator", id]); class Eaterator defines __next__ and __iter__.
hasattr_next(x) == x.py \in {"list_iterator", "eaterator"}
isinstance_Eaterator(x) == x.py = "eaterator"
hasattr_iter(x) == x.py \in {"list", "list_iterator", "eaterator"}

BuiltinItEaterator_init(h, it) ==
    New(h, [kind |-> "BuiltinIt", it |-> it, adv |-> 0])

\* eater(it): the Eaterator made from a client value.
eater(h, x) ==
    IF hasattr_next(x) THEN BuiltinItEaterator_init(h, x)
    ELSE IF isinstance_Eaterator(x) THEN [h |-> h, id |-> x.id, err |-> ""]
    ELSE BuiltinItEaterator_init(
             h, [py |-> "list_iterator", items |-> x.items, pos |-> 0])

\* eat.next().map(eater): the Option holds the Eaterator made of the element.
next_map_eater(h, eat) ==
    LET c == next(h, eat)
    IN  IF is_none(c.r) THEN [h |-> c.h, r |-> None]
        ELSE LET m == eater(c.h, unwrap_(c.r))
             IN  [h |-> m.h, r |-> Some(m.id)]

\* Variant: the first outer element is pulled by the first next(), not here.
FlattenEaterator_init_Lazy(h, eat) ==
    New(h, [kind |-> "Flatten", eat |-> eat, cur |-> None, adv |-> 0])

FlattenEaterator_init(h, eat) ==
    LET c == next_map_eater(h, eat)
    IN  New(c.h, [kind |-> "Flatten", eat |-> eat, cur |-> c.r, adv |-> 0])

ERange_init(h, start, stop) ==
    New(h, [kind |-> "ERange", i |-> start, stop |-> stop, adv |-> 0])

\* ERange.inclusive: float("inf") + 1 is float("inf").
ERange_inclusive(h, id) ==
    [h |-> [h EXCEPT ![id].stop = IF @.inf THEN @ ELSE IntStop(@.v + 1)],
     id |-> id]

\* erange(a, b, c): an argument is the int k, Ellipsis or None; c defaults to
\* None.
PyInt(k) == [py |-> "int", v |-> k]
Ellipsis == [py |-> "ellipsis", v |-> 0]
NoneType == [py |-> "NoneType", v |-> 0]
isinstance_int(x) == x.py = "int"

erange(h, a, b, c) ==
    IF isinstance_int(a)
    THEN IF isinstance_int(c) THEN ERange_init(h, a.v, IntStop(c.v))
         ELSE ERange_init(h, a.v, float_inf)
    ELSE ERange_init(h, 0, IntStop(b.v))

ChocolateEaterator_init(h, n) ==
    New(h, [kind |-> "Chocolate", n |-> n, adv |-> 0])

MapEaterator_init(h, eat, f) ==
    New(h, [kind |-> "Map", eat |-> eat, f |-> f, fcalls |-> 0, adv |-> 0])

StepByEaterator_init(h, eat, step) ==
    IF ~(step >= 0) THEN Raise(h, "AssertionError")
    ELSE New(h, [kind |-> "StepBy", eat |-> eat, step |-> step, i |-> 0, adv |-> 0])

ChainEaterator_init(h, a, b) ==
    New(h, [kind |-> "Chain", a |-> a, b |-> b, d |-> FALSE, adv |-> 0])

ZipEaterator_init(h, a, b) ==
    New(h, [kind |-> "Zip", a |-> a, b |-> b, adv |-> 0])

IntersperseEaterator_init(h, eat, sep) ==
    LET c == next(h, eat)
    IN  New(c.h, [kind |-> "Intersperse", eat |-> eat, sep |-> sep,
                  last |-> c.r, emits |-> FALSE, adv |-> 0])

FilterEaterator_init(h, eat, f) ==
    New(h, [kind |-> "Filter", eat |-> eat, f |-> f, fcalls |-> 0, adv |-> 0])

EnumerateEaterator_init(h, eat) ==
    New(h, [kind |-> "Enumerate", eat |-> eat, i |-> 0, adv |-> 0])

PeekedEaterator_init(h, eat) ==
    LET c == next(h, eat)
    IN  New(c.h, [kind |-> "Peeked", eat |-> eat, next |-> c.r, adv |-> 0])

\* Variant: a negative n is clamped to 0.
SkipEaterator_init_Clamps(h, eat, n) ==
    New(h, [kind |-> "Skip", eat |-> eat, n |-> Max(n, 0), adv |-> 0])

SkipEaterator_init(h, eat, n) ==
    IF ~(n >= 0) THEN Raise(h, "AssertionError")
    ELSE New(h, [kind |-> "Skip", eat |-> eat, n |-> n, adv |-> 0])

TakeEaterator_init(h, eat, n) ==
    IF ~(n >= 0) THEN Raise(h, "AssertionError")
    ELSE New(h, [kind |-> "Take", eat |-> eat, n |-> n, adv |-> 0])

\* Variant: the priming loop does not stop at an absent.
RECURSIVE WindowsPrime_NoBreak(_, _, _, _)
WindowsPrime_NoBreak(h, eat, d, k) ==
    IF k <= 0 THEN [h |-> h, d |-> d]
    ELSE LET c == next(h, eat)
         IN  IF is_none(c.r) THEN WindowsPrime_NoBreak(c.h, eat, d, k - 1)
             ELSE WindowsPrime_NoBreak(c.h, eat, Append(d, unwrap_(c.r)), k - 1)

\* The priming loop of WindowsEaterator.__init__: `for _ in range(k)`.
RECURSIVE WindowsPrime(_, _, _, _)
WindowsPrime(h, eat, d, k) ==
    IF k <= 0 THEN [h |-> h, d |-> d]
    ELSE LET c == next(h, eat)
         IN  IF is_none(c.r) THEN [h |-> c.h, d |-> d]
             ELSE WindowsPrime(c.h, eat, Append(d, unwrap_(c.r)), k - 1)

WindowsEaterator_init(h, eat, windows) ==
    LET p == WindowsPrime(h, eat, <<>>, windows)
    IN  New(p.h, [kind |-> "Windows", eat |-> eat, d |-> p.d,
                  windows |-> windows, adv |-> 0])

\* The combinator methods of Eaterator that do more than call a constructor.
Eaterator_step_by(h, self, step) ==
    IF step = 1 THEN [h |-> h, id |-> self, err |-> ""]
    ELSE StepByEaterator_init(h, self, step)

Eaterator_zip(h, self, x) ==
    LET e == eater(h, x) IN ZipEaterator_init(e.h, self, e.id)

RECURSIVE ChainRest(_, _, _)
ChainRest(h, e, eats) ==
    IF eats = <<>> THEN [h |-> h, id |-> e, err |-> ""]
    ELSE LET b == eater(h, Head(eats))
             c == ChainEaterator_init(b.h, e, b.id)
         IN  ChainRest(c.h, c.id, Tail(eats))

Eaterator_chain(h, self, eats) == ChainRest(h, self, eats)

\* ------------------------------------------------------- terminal consumers
\* Variant: the counter is incremented before the result is looked at.
RECURSIVE Eaterator_count_CountsAbsent(_, _)
Eaterator_count_CountsAbsent(h, self) ==
    LET c == next(h, self)
    IN  IF is_none(c.r) THEN [h |-> c.h, v |-> 1]
        ELSE LET t == Eaterator_count_CountsAbsent(c.h, self)
             IN  [h |-> t.h, v |-> t.v + 1]

RECURSIVE Eaterator_count(_, _)
Eaterator_count(h, self) ==
    LET c == next(h, self)
    IN  IF is_none(c.r) THEN [h |-> c.h, v |-> 0]
        ELSE LET t == Eaterator_count(c.h, self) IN [h |-> t.h, v |-> t.v + 1]

RECURSIVE Eaterator_collect_list(_, _)
Eaterator_collect_list(h, self) ==
    LET c == next(h, self)
    IN  IF is_none(c.r) THEN [h |-> c.h, v |-> <<>>]
        ELSE LET t == Eaterator_collect_list(c.h, self)
             IN  [h |-> t.h, v |-> <<unwrap_(c.r)>> \o t.v]

\* The loop of Eaterator.nth.
RECURSIVE nth_loop(_, _, _)
nth_loop(h, self, n) ==
    LET c == next(h, self)
    IN  IF n = 0 THEN c
        ELSE IF is_none(c.r) THEN [h |-> c.h, r |-> None]
        ELSE nth_loop(c.h, self, n - 1)

\* Variant: n is taken as a 1-based position.
RECURSIVE nth_loop_OneBased(_, _, _)
nth_loop_OneBased(h, self, n) ==
    LET c == next(h, self)
    IN  IF n <= 1 THEN c
        ELSE IF is_none(c.r) THEN [h |-> c.h, r |-> None]
        ELSE nth_loop_OneBased(c.h, self, n - 1)

Eaterator_nth_OneBased(h, self, n) ==
    IF ~(n >= 0) THEN [h |-> h, r |-> None, err |-> "AssertionError"]
    ELSE LET c == nth_loop_OneBased(h, self, n)
         IN  [h |-> c.h, r |-> c.r, err |-> ""]

Eaterator_nth(h, self, n) ==
    IF ~(n >= 0) THEN [h |-> h, r |-> None, err |-> "AssertionError"]
    ELSE LET c == nth_loop(h, self, n) IN [h |-> c.h, r |-> c.r, err |-> ""]

\* Eaterator.__getitem__ with an integer key.
Eaterator_getitem(h, self, key) ==
    LET x == Eaterator_nth(h, self, key)
    IN  IF x.err # "" THEN [h |-> x.h, err |-> x.err, v |-> 0]
        ELSE IF is_none(x.r) THEN [h |-> x.h, err |-> "IndexError", v |-> 0]
        ELSE [h |-> x.h, err |-> "", v |-> unwrap_(x.r)]

\* `x or d` on a field of a slice: the field is <<>> (None) or <<k>>, and both
\* None and 0 are false.
or_(x, d) == IF x = <<>> THEN d ELSE IF x[1] = 0 THEN d ELSE x[1]

slice(start, stop, step) == [start |-> start, stop |-> stop, step |-> step]

\* Eaterator.__getitem__ with a slice key.
Eaterator_getitem_slice(h, self, key) ==
    LET start == or_(key.start, 0)
        stop == or_(key.stop, 1)
        step == or_(key.step, 1)
    IN  IF start < 0 \/ stop < 0 \/ step < 0 THEN Raise(h, "ValueError")
        ELSE LET s == SkipEaterator_init(h, self, start)
             IN  IF s.err # "" THEN s
                 ELSE LET t == TakeEaterator_init(s.h, s.id, stop - start)
                      IN  IF t.err # "" THEN t
                          ELSE Eaterator_step_by(t.h, t.id, step)

\* `except _errhint` catches exc when exc is _errhint or a subclass of it;
\* ValueError and KeyError are subclasses of Exception, KeyboardInterrupt is
\* not.
issubclass(exc, hint) ==
    exc = hint \/ (hint = "Exception" /\ exc \in {"ValueError", "KeyError"})

\* The callable passed to try_for_each: fn.k is <<>> when it never raises and
\* <<j>> when its call number j (from 0) raises fn.exc.
Fn(k, exc) == [k |-> k, exc |-> exc]

\* Eaterator.try_for_each, at call number j of fn: v is what it returns (<<>>
\* for None, <<exc>> for the caught error), err the exception that left it.
RECURSIVE try_for_each_loop(_, _, _, _, _)
try_for_each_loop(h, self, fn, errhint, j) ==
    LET x == next(h, self)
    IN  IF is_none(x.r) THEN [h |-> x.h, v |-> <<>>, err |-> ""]
        ELSE IF fn.k = <<j>>
        THEN IF issubclass(fn.exc, errhint)
             THEN [h |-> x.h, v |-> <<fn.exc>>, err |-> ""]
             ELSE [h |-> x.h, v |-> <<>>, err |-> fn.exc]
        ELSE try_for_each_loop(x.h, self, fn, errhint, j + 1)

\* Variant: every exception of fn is caught, whatever _errhint.
Eaterator_try_for_each_CatchesAll(h, self, fn, errhint) ==
    LET c == try_for_each_loop(h, self, fn, errhint, 0)
    IN  IF c.err # "" THEN [h |-> c.h, v |-> <<c.err>>, err |-> ""] ELSE c

Eaterator_try_for_each(h, self, fn, errhint) ==
    try_for_each_loop(h, self, fn, errhint, 0)

\* ------------------------------------------------------------------ client
VARIABLES
    heap,   \* the objects
    root,   \* the Eaterator the client holds
    out,    \* the Options the client's advances of root returned, in order
    rets,   \* the results of the terminal consumers the client called on root
    op      \* how root was made: the combinator, its arguments, and the
            \* elements S its receiver had left (what collect_list would give)

vars == <<heap, root, out, rets, op>>

Remaining(h, id) == Eaterator_collect_list(h, id).v

NoneCount(s) == Cardinality({i \in 1..Len(s) : is_none(s[i])})

\* What the client notes in out for an advance that raised exception e.
Raised(e) == <<"raised", e>>
is_raised(x) == Len(x) = 2
RaisedCount(s) == Cardinality({i \in 1..Len(s) : is_raised(s[i])})

SourceOp(S) ==
    [kind |-> "source", S |-> S, T |-> <<>>, n |-> 0, up |-> 0, adv0 |-> 0,
     prev |-> <<>>, err |-> "", call |-> ""]

\* root' is the object c.id of heap c.h, made by combinator kind from root;
\* when the combinator raised, the client keeps root and op notes the
\* exception (kind "raised", the combinator in call).
Built(c, kind, T, n) ==
    /\ heap' = c.h
    /\ root' = IF c.err = "" THEN c.id ELSE root
    /\ out' = <<>>
    /\ rets' = <<>>
    /\ op' = [kind |-> IF c.err = "" THEN kind ELSE "raised",
              S |-> Remaining(heap, root), T |-> T, n |-> n,
              up |-> root, adv0 |-> heap[root].adv, prev |-> op,
              err |-> c.err, call |-> kind]

ListArg(B) == [py |-> "list", items |-> B]
EateratorArg(id) == [py |-> "eaterator", id |-> id]

\* The arguments the client passes for the lists Bs: the lists themselves, or
\* Eaterators it made of them with eater.
RECURSIVE MakeArgs(_, _, _)
MakeArgs(h, Bs, form) ==
    IF Bs = <<>> THEN [h |-> h, xs |-> <<>>]
    ELSE IF form = "list"
    THEN LET t == MakeArgs(h, Tail(Bs), form)
         IN  [h |-> t.h, xs |-> <<ListArg(Head(Bs))>> \o t.xs]
    ELSE LET e == eater(h, ListArg(Head(Bs)))
             t == MakeArgs(e.h, Tail(Bs), form)
         IN  [h |-> t.h, xs |-> <<EateratorArg(e.id)>> \o t.xs]

ArgForms == {"list", "eaterator"}

CanBuild == op.kind = "source" /\ out = <<>> /\ rets = <<>>

Init ==
    \E A \in Lists :
        /\ heap = eater(<<>>, ListArg(A)).h
        /\ root = 1
        /\ out = <<>>
        /\ rets = <<>>
        /\ op = SourceOp(A)

Map ==
    \E f \in {"identity", "inc"} :
        CanBuild /\ Built(MapEaterator_init(heap, root, f), "map", f, 0)

Chain ==
    \E Bs \in {<<B>> : B \in ArgLists}
                \cup {<<B, C>> : B \in ArgLists, C \in ShortLists},
       form \in ArgForms :
        /\ CanBuild
        /\ LET a == MakeArgs(heap, Bs, form)
           IN  Built(Eaterator_chain(a.h, root, a.xs), "chain", Bs, 0)

Zip ==
    \E B \in ArgLists, form \in ArgForms :
        /\ CanBuild
        /\ LET a == MakeArgs(heap, <<B>>, form)
           IN  Built(Eaterator_zip(a.h, root, a.xs[1]), "zip", B, 0)

\* The client calls root.zip(root): b is then an Eaterator that wraps a.
ZipSelf ==
    /\ CanBuild
    /\ Built(Eaterator_zip(heap, root, EateratorArg(root)), "zip_self", <<>>, 0)

Intersperse ==
    \E sep \in Seps :
        CanBuild /\ Built(IntersperseEaterator_init(heap, root, sep), "intersperse", sep, 0)

StepBy ==
    \E step \in 1..MaxN :
        CanBuild /\ Built(Eaterator_step_by(heap, root, step), "step_by", <<>>, step)

Skip ==
    \E n \in 0..MaxN :
        CanBuild /\ Built(SkipEaterator_init(heap, root, n), "skip", <<>>, n)

Take ==
    \E n \in 0..MaxN :
        CanBuild /\ Built(TakeEaterator_init(heap, root, n), "take", <<>>, n)

Windows ==
    \E size \in 1..MaxN :
        CanBuild /\ Built(WindowsEaterator_init(heap, root, size), "windows", <<>>, size)

Filter ==
    \E p \in {"even", "odd"} :
        CanBuild /\ Built(FilterEaterator_init(heap, root, p), "filter", p, 0)

Peeked ==
    CanBuild /\ Built(PeekedEaterator_init(heap, root), "peeked", <<>>, 0)

\* The client writes root[start:stop:step] with all three given,
\* 0 <= start <= stop and step >= 1.
Slice ==
    \E start \in 0..MaxN, stop \in 0..MaxN, step \in 1..MaxN :
        /\ start <= stop
        /\ CanBuild
        /\ LET key == slice(<<start>>, <<stop>>, <<step>>)
           IN  Built(Eaterator_getitem_slice(heap, root, key), "slice", key, 0)

\* The client calls eater(root).
Eater ==
    CanBuild /\ Built(eater(heap, EateratorArg(root)), "eater", <<>>, 0)

\* The client calls root.next().
Unbounded == heap[root].kind = "ERange" /\ heap[root].stop.inf

\* A next() of a filter over an unbounded range is followed pass by pass, by
\* FilterCall and FilterPass below, as it need not return.
Stepwise == op.kind \in {"filter_inf", "filter_inf.next"}

Advance ==
    /\ ~Stepwise
    /\ rets = <<>>
    /\ NoneCount(out) < MaxNone
    /\ Unbounded => Len(out) < MaxAdv
    /\ RaisedCount(out) < MaxNone
    /\ LET c == next(heap, root)
       IN  /\ heap' = c.h
           /\ out' = Append(out, IF "err" \in DOMAIN c THEN Raised(c.err)
                                 ELSE c.r)
    /\ UNCHANGED <<root, rets, op>>

\* What the client noted of a terminal call: the call, its argument, its
\* result (heap h after it), and how often root had been advanced before and
\* after the call.
Ret(call, n, v, err, h) ==
    [call |-> call, n |-> n, v |-> v, err |-> err,
     adv0 |-> heap[root].adv, adv1 |-> h[root].adv]

Count ==
    /\ Len(rets) < MaxTerm
    /\ LET c == Eaterator_count(heap, root)
       IN  heap' = c.h /\ rets' = Append(rets, Ret("count", 0, c.v, "", c.h))
    /\ UNCHANGED <<root, out, op>>

\* The indices the client asks for: small ones, and 10 as in S[10].
Idx == 0..MaxN \cup {10}

Nth ==
    \E n \in Idx :
        /\ Len(rets) < MaxTerm
        /\ LET c == Eaterator_nth(heap, root, n)
           IN  heap' = c.h /\ rets' = Append(rets, Ret("nth", n, c.r, c.err, c.h))
        /\ UNCHANGED <<root, out, op>>

GetItem ==
    \E key \in Idx :
        /\ Len(rets) < MaxTerm
        /\ LET c == Eaterator_getitem(heap, root, key)
           IN  heap' = c.h /\ rets' = Append(rets, Ret("getitem", key, c.v, c.err, c.h))
        /\ UNCHANGED <<root, out, op>>

Next ==
    \/ Map
    \/ Chain
    \/ Zip
    \/ ZipSelf
    \/ Intersperse
    \/ StepBy
    \/ Skip
    \/ Take
    \/ Windows
    \/ Filter
    \/ Peeked
    \/ Slice
    \/ Eater
    \/ Advance
    \/ Count

Spec == Init /\ [][Next]_vars

\* The client of the terminal consumers: it makes a source (a list, or the
\* ChocolateEaterator of test.py), advances it some, then calls consumers.
Chocolates(n) == [i \in 1..n |-> "chocolate"]

InitTerm ==
    /\ root = 1
    /\ out = <<>>
    /\ rets = <<>>
    /\ \/ \E A \in Lists :
              heap = eater(<<>>, ListArg(A)).h /\ op = SourceOp(A)
       \/ \E n \in 0..MaxN :
              heap = ChocolateEaterator_init(<<>>, n).h /\ op = SourceOp(Chocolates(n))

\* The exception of fn and the _errhint the client passes with it: the same
\* kind, a subclass of the hint, a sibling of the hint, and one that is no
\* Exception. "Exception" is also the default _errhint.
TryKinds ==
    {<<"ValueError", "ValueError">>, <<"ValueError", "Exception">>,
     <<"KeyError", "ValueError">>, <<"KeyboardInterrupt", "Exception">>}

\* The client calls root.try_for_each(fn, errhint); a fn that never raises
\* is passed with the default _errhint only.
TryForEach ==
    \E k \in {<<>>} \cup {<<j>> : j \in 0..MaxN}, t \in TryKinds :
        /\ k = <<>> => t = <<"ValueError", "Exception">>
        /\ Len(rets) < MaxTerm
        /\ LET c == Eaterator_try_for_each(heap, root, Fn(k, t[1]), t[2])
           IN  /\ heap' = c.h
               /\ rets' = Append(rets, Ret("try_for_each",
                                           [fn |-> Fn(k, t[1]), errhint |-> t[2]],
                                           c.v, c.err, c.h))
        /\ UNCHANGED <<root, out, op>>

NextTerm ==
    \/ Advance
    \/ Count
    \/ Nth
    \/ GetItem

SpecTerm == InitTerm /\ [][NextTerm]_vars

\* The client of try_for_each: the same sources, advanced some, then calls of
\* try_for_each.
InitTry == InitTerm

NextTry ==
    \/ Advance
    \/ TryForEach

SpecTry == InitTry /\ [][NextTry]_vars

\* The client of a range: erange(..., k).skip(n).take(m), then advances; or
\* erange(a, ..., c) or erange(a, ...), inclusive() of it at some point, and
\* advances.
RangeList(a, b) == [i \in 1..(b - a) |-> a + i - 1]

RangeOp(k) ==
    [kind |-> "range", S |-> RangeList(0, k), T |-> <<>>, n |-> k, up |-> 0,
     adv0 |-> 0, prev |-> <<>>, err |-> "", call |-> ""]

\* op of erange(a, ..., c) (kind "range_ab") and of erange(a, ...) (kind
\* "range_inf"): T is the start, n the stop.
RangeOp2(kind, a, c) ==
    [kind |-> kind, S |-> <<>>, T |-> a, n |-> c, up |-> 0,
     adv0 |-> 0, prev |-> <<>>, err |-> "", call |-> ""]

InitRange ==
    /\ root = 1
    /\ out = <<>>
    /\ rets = <<>>
    /\ \/ \E k \in 0..MaxStop :
              /\ heap = erange(<<>>, Ellipsis, PyInt(k), NoneType).h
              /\ op = RangeOp(k)
       \/ \E a \in 0..MaxStop, c \in 0..MaxStop :
              /\ heap = erange(<<>>, PyInt(a), Ellipsis, PyInt(c)).h
              /\ op = RangeOp2("range_ab", a, c)
       \/ \E a \in 0..MaxStop :
              /\ heap = erange(<<>>, PyInt(a), Ellipsis, NoneType).h
              /\ op = RangeOp2("range_inf", a, 0)

\* The client calls root.inclusive() on the range it made, before or after
\* advancing it; op.adv0 notes how often it had advanced it.
Inclusive ==
    /\ op.kind \in {"range", "range_ab", "range_inf"}
    /\ LET c == ERange_inclusive(heap, root)
       IN  heap' = c.h /\ root' = c.id
    /\ op' = [op EXCEPT !.kind = "inclusive", !.prev = op, !.up = root,
                        !.adv0 = heap[root].adv]
    /\ UNCHANGED <<out, rets>>

RangeSkip ==
    \E n \in 0..MaxN :
        /\ op.kind = "range" /\ out = <<>>
        /\ Built(SkipEaterator_init(heap, root, n), "skip", <<>>, n)

RangeTake ==
    \E m \in 0..MaxN :
        /\ op.kind = "skip" /\ out = <<>>
        /\ Built(TakeEaterator_init(heap, root, m), "take", <<>>, m)

NextRange ==
    \/ RangeSkip
    \/ RangeTake
    \/ Inclusive
    \/ Advance

SpecRange == InitRange /\ [][NextRange]_vars

\* The client of sequences of sequences: it makes an Eaterator of a list of
\* lists, or of a list of Eaterators made of them, builds flatten or another
\* adapter on it (the callbacks are lambda x: x and bool) and advances the
\* result.
InnerLists == ShortLists \cup {<<0, 1>>}
Nested == SeqsUpTo(InnerLists, MaxOuter)

\* What the element x of an outer sequence holds in heap h.
Contents(h, x) == IF x.py = "list" THEN x.items ELSE Remaining(h, x.id)

InitFlat ==
    \E Bs \in Nested, form \in ArgForms :
        LET a == MakeArgs(<<>>, Bs, form)
            c == eater(a.h, ListArg(a.xs))
        IN  /\ heap = c.h
            /\ root = c.id
            /\ out = <<>>
            /\ rets = <<>>
            /\ op = SourceOp(a.xs)

Flatten ==
    /\ CanBuild
    /\ LET R == Remaining(heap, root)
       IN  Built(FlattenEaterator_init(heap, root), "flatten",
                 [i \in 1..Len(R) |-> Contents(heap, R[i])], 0)

MapIdentity ==
    CanBuild /\ Built(MapEaterator_init(heap, root, "identity"), "map", "identity", 0)

FilterBool ==
    CanBuild /\ Built(FilterEaterator_init(heap, root, "bool"), "filter", "bool", 0)

Enumerate ==
    CanBuild /\ Built(EnumerateEaterator_init(heap, root), "enumerate", <<>>, 0)

\* chain and zip with one more sequence, a short list of numbers.
ChainShort ==
    \E B \in ShortLists, form \in ArgForms :
        /\ CanBuild
        /\ LET a == MakeArgs(heap, <<B>>, form)
           IN  Built(Eaterator_chain(a.h, root, a.xs), "chain", <<B>>, 0)

ZipShort ==
    \E B \in ShortLists, form \in ArgForms :
        /\ CanBuild
        /\ LET a == MakeArgs(heap, <<B>>, form)
           IN  Built(Eaterator_zip(a.h, root, a.xs[1]), "zip", B, 0)

NextFlat ==
    \/ Flatten
    \/ MapIdentity
    \/ FilterBool
    \/ Enumerate
    \/ ChainShort
    \/ ZipShort
    \/ Skip
    \/ Take
    \/ StepBy
    \/ Intersperse
    \/ Peeked
    \/ Windows
    \/ Advance

SpecFlat == InitFlat /\ [][NextFlat]_vars

\* The client of the adapters that loop: over a sequence of sequences it builds
\* filter(bool), skip, step_by or flatten and advances it; over the unbounded
\* range erange(a, ...) it builds filter(p) and calls next(), of which each pass
\* through the body is a step. The range is advanced MaxAdv times at most.
InitLoop ==
    \/ InitFlat
    \/ /\ root = 1
       /\ out = <<>>
       /\ rets = <<>>
       /\ \E a \in 0..MaxStop :
              /\ heap = erange(<<>>, PyInt(a), Ellipsis, NoneType).h
              /\ op = RangeOp2("range_inf", a, 0)

FilterRange ==
    \E p \in {"even", "odd", "never"} :
        /\ op.kind = "range_inf"
        /\ LET c == FilterEaterator_init(heap, root, p)
           IN  heap' = c.h /\ root' = c.id
        /\ out' = <<>>
        /\ rets' = <<>>
        /\ op' = [kind |-> "filter_inf", S |-> <<>>, T |-> p, n |-> 0,
                  up |-> root, adv0 |-> heap[root].adv, prev |-> op,
                  err |-> "", call |-> "filter"]

\* The client calls root.next(): op.n notes how often the range had been
\* advanced before the call.
FilterCall ==
    /\ op.kind = "filter_inf"
    /\ heap[op.up].adv < MaxAdv
    /\ heap' = [heap EXCEPT ![root].adv = @ + 1]
    /\ op' = [op EXCEPT !.kind = "filter_inf.next", !.n = heap[op.up].adv]
    /\ UNCHANGED <<root, out, rets>>

FilterPass ==
    /\ op.kind = "filter_inf.next"
    /\ heap[op.up].adv < MaxAdv
    /\ LET c == FilterEaterator_next_body(heap, root)
       IN  /\ heap' = c.h
           /\ IF c.again THEN out' = out /\ op' = op
              ELSE /\ out' = Append(out, c.r)
                   /\ op' = [op EXCEPT !.kind = "filter_inf"]
    /\ UNCHANGED <<root, rets>>

NextLoop ==
    \/ FilterBool
    \/ Skip
    \/ StepBy
    \/ Flatten
    \/ Advance
    \/ FilterRange
    \/ FilterCall
    \/ FilterPass

SpecLoop == InitLoop /\ [][NextLoop]_vars

\* Option as an object. The heap holds Option objects; object 1 is the module's
\* __NONE__, made when option.py is loaded. A call returns the id of an object.
NONE == 1
Option_init(d, h) == [kind |-> "Option", data |-> d, has |-> h]
OptionModule == <<Option_init(NoneType, FALSE)>>

Option_none(h) == [h |-> h, id |-> NONE]
Option_some(h, d) == [h |-> Append(h, Option_init(PyInt(d), TRUE)), id |-> Len(h) + 1]
Option_is_none(h, id) == ~h[id].has
Option_replace(h, id, x) ==
    [h |-> [h EXCEPT ![id].has = TRUE, ![id].data = PyInt(x)], id |-> id]

\* next() of an Eaterator made of an exhausted iterator: the StopIteration
\* branch of BuiltinItEaterator.next.
BuiltinItEaterator_next_StopIteration(h) == Option_none(h)

\* The client of Option: out holds the Options it was given, rets how it got
\* each (from Option.none(), Option.some(v), or next() of an exhausted
\* Eaterator) and whether it has called replace on that reference.
InitOption ==
    /\ heap = OptionModule
    /\ root = NONE
    /\ out = <<>>
    /\ rets = <<>>
    /\ op = SourceOp(<<>>)

Got(c, from) ==
    /\ heap' = c.h
    /\ out' = Append(out, c.id)
    /\ rets' = Append(rets, [from |-> from, replaced |-> FALSE])
    /\ UNCHANGED <<root, op>>

CallNone ==
    /\ Len(out) < MaxRefs
    /\ Got(Option_none(heap), "none")

CallSome ==
    /\ Len(out) < MaxRefs
    /\ \E v \in Vals : Got(Option_some(heap, v), "some")

CallNextExhausted ==
    /\ Len(out) < MaxRefs
    /\ Got(BuiltinItEaterator_next_StopIteration(heap), "next")

CallReplace ==
    \E i \in 1..Len(out), v \in Vals :
        /\ heap' = Option_replace(heap, out[i], v).h
        /\ rets' = [rets EXCEPT ![i].replaced = TRUE]
        /\ UNCHANGED <<root, out, op>>

NextOption ==
    \/ CallNone
    \/ CallSome
    \/ CallNextExhausted
    \/ CallReplace

SpecOption == InitOption /\ [][NextOption]_vars

\* The client of the invalid arguments: it makes a source of a list, advances
\* it some, and calls skip, take, nth, step_by or a slice with an argument
\* that is negative (for step_by: not positive); then it goes on advancing what
\* it holds.
InitArgs == Init

ArgSkip ==
    \E n \in (0 - MaxN)..(0 - 1) :
        /\ op.kind = "source"
        /\ Built(SkipEaterator_init(heap, root, n), "skip", <<>>, n)

ArgTake ==
    \E n \in (0 - MaxN)..(0 - 1) :
        /\ op.kind = "source"
        /\ Built(TakeEaterator_init(heap, root, n), "take", <<>>, n)

ArgStepBy ==
    \E step \in (0 - MaxN)..0 :
        /\ op.kind = "source"
        /\ Built(Eaterator_step_by(heap, root, step), "step_by", <<>>, step)

ArgNth ==
    \E n \in (0 - MaxN)..(0 - 1) :
        /\ op.kind = "source"
        /\ Len(rets) < MaxTerm
        /\ LET c == Eaterator_nth(heap, root, n)
           IN  heap' = c.h /\ rets' = Append(rets, Ret("nth", n, c.r, c.err, c.h))
        /\ UNCHANGED <<root, out, op>>

\* The fields of a slice: omitted (None) or an int.
SliceFields == {<<>>} \cup {<<k>> : k \in (0 - 1)..1}
HasNegative(key) ==
    \E f \in {key.start, key.stop, key.step} : f # <<>> /\ f[1] < 0

ArgSlice ==
    \E start \in SliceFields, stop \in SliceFields, step \in SliceFields :
        /\ op.kind = "source"
        /\ HasNegative(slice(start, stop, step))
        /\ LET key == slice(start, stop, step)
           IN  Built(Eaterator_getitem_slice(heap, root, key), "slice", key, 0)

ArgWindows ==
    \E size \in 0..MaxN :
        /\ op.kind = "source"
        /\ Built(WindowsEaterator_init(heap, root, size), "windows", <<>>, size)

NextArgs ==
    \/ ArgSkip
    \/ ArgTake
    \/ ArgStepBy
    \/ ArgNth
    \/ ArgSlice
    \/ ArgWindows
    \/ Advance

SpecArgs == InitArgs /\ [][NextArgs]_vars

\* ------------------------------------------------------------------ claims
\* The Option the i-th advance of a sequence with elements E returns when its
\* absent is permanent.
Expected(E, i) == IF i <= Len(E) THEN Some(E[i]) ELSE None

RECURSIVE Concat(_)
Concat(Ls) == IF Ls = <<>> THEN <<>> ELSE Head(Ls) \o Concat(Tail(Ls))

\* How often the receiver of the combinator has been advanced since root was
\* made from it.
UpAdvances == heap[op.up].adv - op.adv0

\* C1: chain(A, B1, ..., Bk) yields the elements of A in order, then those of
\* B1, ..., Bk in order, then absent; count() of it gives the sum of the
\* lengths (less what the client had already consumed).
C1_ChainYieldsAllInOrder ==
    op.kind = "chain" =>
        LET E == op.S \o Concat(op.T)
        IN  /\ \A i \in 1..Len(out) : out[i] = Expected(E, i)
            /\ \A j \in 1..Len(rets) :
                   rets[j].call = "count" =>
                       rets[j].v = Len(E) - Min(rets[j].adv0, Len(E))

C1_Witness ==
    /\ op.kind = "chain"
    /\ heap[heap[root].b].it.py = "eaterator"
    /\ Len(op.T) = 2
    /\ op.S # <<>> /\ op.T[1] # <<>> /\ op.T[2] # <<>>
    /\ Len(out) = Len(op.S) + Len(op.T[1]) + Len(op.T[2]) + 1
    /\ Len(rets) = 1 /\ rets[1].call = "count"

\* C2: zip(A, B) yields the pairs (A[i], B[i]) for i up to the shorter
\* length, then absent.
C2_ZipYieldsMinPairs ==
    op.kind = "zip" =>
        \A i \in 1..Len(out) :
            out[i] = IF i <= Min(Len(op.S), Len(op.T))
                     THEN Some(<<op.S[i], op.T[i]>>)
                     ELSE None

C2_Witness ==
    /\ op.kind = "zip"
    /\ Len(op.S) > Len(op.T) /\ Len(op.T) >= 2
    /\ Len(out) = Len(op.T) + 2

\* C3: take(n) yields the first min(n, L) elements of its upstream and then
\* absent; count() of it is min(n, L); the upstream is advanced at most n
\* times whatever the client does, so that once the countdown is 0 the elements
\* from index n on are still in the upstream.
C3_TakeYieldsPrefixAndPullsAtMostN ==
    op.kind = "take" =>
        LET L == Len(op.S)
            E == SubSeq(op.S, 1, Min(op.n, L))
        IN  /\ \A i \in 1..Len(out) : out[i] = Expected(E, i)
            /\ UpAdvances <= op.n
            /\ rets = <<>> => UpAdvances = Min(Len(out), op.n)
            /\ heap[root].n = op.n - UpAdvances
            /\ \A j \in 1..Len(rets) :
                   rets[j].call = "count" =>
                       /\ rets[j].v <= op.n
                       /\ rets[j].v = Len(E) - Min(rets[j].adv0, Len(E))
            /\ heap[root].n = 0 =>
                   Remaining(heap, op.up) = SubSeq(op.S, op.n + 1, L)

C3_Witness ==
    /\ op.kind = "take"
    /\ op.n >= 1 /\ Len(op.S) > op.n
    /\ Len(out) = op.n + 2
    /\ UpAdvances = op.n
    /\ Remaining(heap, op.up) # <<>>

\* C5: windows(size), size >= 1, over L elements yields the max(0, L - size + 1)
\* contiguous slices of length size in order, then absent.
C5_WindowsYieldsSlices ==
    op.kind = "windows" /\ op.n >= 1 =>
        \A i \in 1..Len(out) :
            out[i] = IF i <= Max(0, Len(op.S) - op.n + 1)
                     THEN Some(SubSeq(op.S, i, i + op.n - 1))
                     ELSE None

C5_Witness ==
    /\ op.kind = "windows"
    /\ op.n >= 2 /\ Len(op.S) > op.n
    /\ Len(out) = Len(op.S) - op.n + 2
    /\ is_none(out[Len(out)])

\* The elements at indices 0, step, 2 * step, ... of S.
RECURSIVE EveryNth(_, _)
EveryNth(S, step) ==
    IF S = <<>> THEN <<>>
    ELSE <<Head(S)>> \o EveryNth(SubSeq(S, step + 1, Len(S)), step)

\* C6: step_by(step), step >= 1, yields S[0], S[step], S[2 * step], ... then
\* absent; the elements in between are pulled from upstream (step advances of
\* upstream for each advance after the first); step_by(1) is the receiver
\* itself, with no new object.
C6_StepByYieldsEveryNth ==
    op.kind = "step_by" /\ op.n >= 1 =>
        /\ \A i \in 1..Len(out) : out[i] = Expected(EveryNth(op.S, op.n), i)
        /\ IF op.n = 1
           THEN root = op.up /\ \A o \in 1..Len(heap) : heap[o].kind # "StepBy"
           ELSE /\ heap[root].kind = "StepBy" /\ heap[root].eat = op.up
                /\ rets = <<>> =>
                       UpAdvances = IF out = <<>> THEN 0
                                    ELSE 1 + (Len(out) - 1) * op.n

C6_Witness ==
    /\ op.kind = "step_by"
    /\ op.n = 2
    /\ op.S = <<0, 1, 2, 3, 4, 5>>
    /\ out = <<Some(0), Some(2), Some(4), None>>

\* C7: intersperse(sep) yields S[0], sep, S[1], ..., sep, S[L-1]: 2L - 1
\* elements for L >= 1, L - 1 of them separators, none leading or trailing,
\* and nothing for L = 0.
C7_IntersperseYieldsAlternating ==
    op.kind = "intersperse" =>
        LET L == Len(op.S)
        IN  /\ \A i \in 1..Len(out) :
                   out[i] = IF i > 2 * L - 1 THEN None
                            ELSE IF i % 2 = 1 THEN Some(op.S[(i + 1) \div 2])
                            ELSE Some(op.T)
            /\ \A j \in 1..Len(rets) :
                   rets[j].call = "count" /\ rets[j].adv0 = 0 =>
                       rets[j].v = IF L = 0 THEN 0 ELSE 2 * L - 1

C7_Witness ==
    /\ op.kind = "intersperse"
    /\ Len(op.S) = 10
    /\ Len(out) = 20
    /\ Cardinality({i \in 1..Len(out) : out[i] = Some(op.T)}) = 9
    /\ Cardinality({i \in 1..Len(out) : is_some(out[i])}) = 19
    /\ is_none(out[20])

\* The elementwise image of a list under a callback.
MapList(f, S) == [i \in 1..Len(S) |-> Apply(f, S[i])]

\* C8: map(f) yields f(S[0]), f(S[1]), ... then absent; f is called once for
\* each present result of upstream and never for absent; collecting
\* S.map(identity) gives the list collecting S gives.
C8_MapAppliesOncePerElement ==
    op.kind = "map" =>
        /\ \A i \in 1..Len(out) : out[i] = Expected(MapList(op.T, op.S), i)
        /\ heap[root].fcalls = Min(UpAdvances, Len(op.S))
        /\ op.T = "identity" /\ out = <<>> /\ rets = <<>> =>
               Remaining(heap, root) = Remaining(heap, op.up)

C8_Witness ==
    /\ op.kind = "map"
    /\ op.T = "inc"
    /\ Len(op.S) >= 2
    /\ NoneCount(out) = 2
    /\ heap[root].fcalls = Len(op.S)

\* C4: skip(n).take(m) over the range [0, k) yields n, n + 1, ...,
\* min(n + m, k) - 1 and then absent; the countdown of skip is n until skip is
\* first advanced and 0 from then on, so it only decreases and is never
\* negative.
C4_SkipTakeOverRange ==
    /\ op.kind = "take" /\ op.prev.kind = "skip" /\ op.prev.prev.kind = "range" =>
           LET n == op.prev.n
               m == op.n
               k == op.prev.prev.n
           IN  /\ \A i \in 1..Len(out) :
                      out[i] = IF n + i - 1 < Min(n + m, k)
                               THEN Some(n + i - 1)
                               ELSE None
               /\ heap[op.up].n = IF heap[op.up].adv = 0 THEN n ELSE 0
    /\ op.kind = "skip" =>
           heap[root].n = IF heap[root].adv = 0 THEN op.n ELSE 0

C4_Witness ==
    /\ op.kind = "take" /\ op.prev.kind = "skip" /\ op.prev.prev.kind = "range"
    /\ op.prev.n = 2 /\ op.n = 3 /\ op.prev.prev.n = 4
    /\ out = <<Some(2), Some(3), None>>
    /\ heap[op.up].n = 0

\* What a source with elements S, advanced adv times so far, has left.
Left(S, adv) == SubSeq(S, Min(adv, Len(S)) + 1, Len(S))

\* C9: count() returns the number of presents before the first absent and
\* leaves the sequence drained, so that a count() right after a count() gives
\* 0: 3 and then 0 on the source of three chocolates.
C9_CountDrains ==
    op.kind = "source" =>
        \A j \in 1..Len(rets) :
            rets[j].call = "count" =>
                /\ rets[j].v = Len(Left(op.S, rets[j].adv0))
                /\ rets[j].v = rets[j].adv1 - rets[j].adv0 - 1
                /\ j = Len(rets) => Remaining(heap, root) = <<>>
                /\ j > 1 /\ rets[j - 1].call = "count" => rets[j].v = 0

C9_Witness ==
    /\ heap[root].kind = "Chocolate"
    /\ op.S = Chocolates(3)
    /\ out = <<>>
    /\ Len(rets) = 2
    /\ rets[1].call = "count" /\ rets[1].v = 3
    /\ rets[2].call = "count" /\ rets[2].v = 0

\* C10: on a sequence with L elements left, S[n] is the element at 0-based
\* position n for n < L and raises IndexError for n >= L; nth(n) is that
\* element or absent, after min(n, L) + 1 advances of the sequence.
C10_IndexAccess ==
    op.kind = "source" =>
        \A j \in 1..Len(rets) :
            LET P == Left(op.S, rets[j].adv0)
                n == rets[j].n
            IN  /\ rets[j].call = "nth" =>
                       /\ rets[j].v = Expected(P, n + 1)
                       /\ rets[j].adv1 - rets[j].adv0 = Min(n, Len(P)) + 1
                /\ rets[j].call = "getitem" =>
                       IF n < Len(P)
                       THEN rets[j].err = "" /\ rets[j].v = P[n + 1]
                       ELSE rets[j].err = "IndexError"

C10_Witness ==
    /\ op.S = <<10, 20, 30, 40>>
    /\ out = <<>>
    /\ Len(rets) = 2
    /\ rets[1].call = "getitem" /\ rets[1].n = 2
    /\ rets[1].err = "" /\ rets[1].v = 30
    /\ rets[2].call = "getitem" /\ rets[2].n = 10
    /\ rets[2].err = "IndexError"

\* C11: for 0 <= start <= stop and step >= 1 all given, S[start:stop:step]
\* yields the elements of S at the indices start, start + step, ... below
\* min(stop, length of S), then absent; S[0:0] yields nothing.
SliceList(S, start, stop, step) ==
    EveryNth(SubSeq(S, start + 1, Min(stop, Len(S))), step)

C11_SliceYieldsIndexedElements ==
    op.kind = "slice" =>
        LET E == SliceList(op.S, op.T.start[1], op.T.stop[1], op.T.step[1])
        IN  \A i \in 1..Len(out) : out[i] = Expected(E, i)

\* C12: eater applied to an Eaterator returns that very object, not a new
\* wrapper around it.
C12_EaterOfEateratorIsSameObject ==
    op.kind = "eater" => root = op.up

\* C13: erange(..., stop) yields 0, ..., stop - 1 then absent; erange(start,
\* ..., stop) yields start, ..., stop - 1 then absent, nothing when start >=
\* stop; erange(start, ...) yields start, start + 1, ... and never absent;
\* inclusive() returns the same range object, and called before any advance on
\* erange(start, ..., stop) it makes the range yield start, ..., stop.
C13_RangeYields ==
    /\ op.kind = "range" =>
           \A i \in 1..Len(out) : out[i] = Expected(RangeList(0, op.n), i)
    /\ op.kind = "range_ab" =>
           \A i \in 1..Len(out) : out[i] = Expected(RangeList(op.T, op.n), i)
    /\ op.kind = "range_inf" =>
           \A i \in 1..Len(out) : out[i] = Some(op.T + i - 1)
    /\ op.kind = "inclusive" =>
           /\ root = op.up
           /\ op.prev.kind = "range_ab" /\ op.adv0 = 0 =>
                  \A i \in 1..Len(out) :
                      out[i] = Expected(RangeList(op.T, op.n + 1), i)

C13_Witness ==
    /\ op.kind = "inclusive" /\ op.prev.kind = "range_ab" /\ op.adv0 = 0
    /\ op.T = 1 /\ op.n = 3
    /\ out = <<Some(1), Some(2), Some(3), None>>

\* C14: try_for_each(fn, errhint) on a sequence with L elements left: when fn
\* does not raise on any of them it drains the sequence (L + 1 advances) and
\* returns None; when fn raises on the element at position k < L, the sequence
\* has been advanced exactly k + 1 times, and the error is returned as a value
\* when it is of the kind errhint and leaves try_for_each as an exception
\* otherwise.
C14_TryForEachHaltsAtError ==
    op.kind = "source" =>
        \A j \in 1..Len(rets) :
            rets[j].call = "try_for_each" =>
                LET r == rets[j]
                    L == Len(Left(op.S, r.adv0))
                    fn == r.n.fn
                IN  IF fn.k = <<>> \/ (fn.k # <<>> /\ fn.k[1] >= L)
                    THEN r.v = <<>> /\ r.err = "" /\ r.adv1 - r.adv0 = L + 1
                    ELSE /\ r.adv1 - r.adv0 = fn.k[1] + 1
                         /\ IF issubclass(fn.exc, r.n.errhint)
                            THEN r.v = <<fn.exc>> /\ r.err = ""
                            ELSE r.v = <<>> /\ r.err = fn.exc

C14_Witness ==
    /\ op.kind = "source" /\ Len(op.S) = 3 /\ Len(rets) = 2
    /\ rets[1].call = "try_for_each" /\ rets[1].n.fn = Fn(<<1>>, "ValueError")
    /\ rets[1].v = <<"ValueError">> /\ rets[1].adv0 = 0 /\ rets[1].adv1 = 2
    /\ rets[2].call = "try_for_each" /\ rets[2].n.fn = Fn(<<0>>, "KeyError")
    /\ rets[2].err = "KeyError" /\ rets[2].adv1 = 3

\* C15: skip(n) and take(n) with n < 0, a slice with a negative start, stop or
\* step, and nth(n) with n < 0 raise at the call itself: no adapter is made,
\* the upstream is not advanced by the call (all its advances since are the
\* client's own), and nth does not answer as nth(0) would.
C15_NegativeArgumentsRaiseAtCall ==
    /\ (op.call \in {"skip", "take"} /\ op.n < 0)
       \/ (op.call = "slice" /\ HasNegative(op.T)) =>
           /\ op.kind = "raised"
           /\ op.err = IF op.call = "slice" THEN "ValueError" ELSE "AssertionError"
           /\ root = op.up
           /\ Len(heap) = 1
           /\ UpAdvances = Len(out)
    /\ \A j \in 1..Len(rets) :
           rets[j].call = "nth" /\ rets[j].n < 0 =>
               /\ rets[j].err = "AssertionError"
               /\ rets[j].v = None
               /\ rets[j].adv1 = rets[j].adv0

C15_Witness ==
    /\ op.kind = "raised" /\ op.call = "skip" /\ op.n = 0 - 1
    /\ op.err = "AssertionError"
    /\ op.S = <<1>> /\ op.adv0 = 1
    /\ out = <<Some(1), None>>

\* C16: step_by(step) with step <= 0 raises when the adapter is constructed: no
\* adapter is made, so nothing is advanced through one.
C16_StepByRejectsNonPositiveStep ==
    op.call = "step_by" /\ op.n <= 0 =>
        /\ op.kind = "raised"
        /\ root = op.up

\* C17: flatten yields the elements of the inner sequences, concatenated in the
\* order of the outer sequence (an empty inner sequence adds nothing), then
\* absent; when an advance has returned absent, the outer sequence is exhausted
\* and no inner sequence is active.
C17_FlattenYieldsConcatenation ==
    op.kind = "flatten" =>
        /\ \A i \in 1..Len(out) : out[i] = Expected(Concat(op.T), i)
        /\ (out # <<>> /\ is_none(out[Len(out)])) =>
               /\ is_none(heap[root].cur)
               /\ Remaining(heap, op.up) = <<>>

C17_Witness ==
    /\ op.kind = "flatten"
    /\ op.T = <<<<0>>, <<>>, <<0, 1>>>>
    /\ out = <<Some(0), Some(0), Some(1), None>>

\* C18: filter(p) yields the elements of S that satisfy p, in their order, then
\* absent; p has been called once for each element the upstream has given, and
\* filter has returned absent only after its upstream did.
RECURSIVE FilterList(_, _)
FilterList(S, p) ==
    IF S = <<>> THEN <<>>
    ELSE IF Apply(p, Head(S)) THEN <<Head(S)>> \o FilterList(Tail(S), p)
    ELSE FilterList(Tail(S), p)

C18_FilterYieldsSatisfying ==
    op.kind = "filter" =>
        /\ \A i \in 1..Len(out) : out[i] = Expected(FilterList(op.S, op.T), i)
        /\ heap[root].fcalls = Min(UpAdvances, Len(op.S))
        /\ (\E i \in 1..Len(out) : is_none(out[i])) => UpAdvances > Len(op.S)

C18_Witness ==
    /\ op.kind = "filter" /\ op.T = "even"
    /\ op.S = <<0, 1, 2, 3, 4, 5>>
    /\ out = <<Some(0), Some(2), Some(4), None>>
    /\ heap[root].fcalls = 6

\* C19: peeked() over S of length L yields L pairs then absent: pair i is
\* (S[i], present(S[i + 1])) and the last is (S[L], absent) (1-based here), so
\* the lookahead of a pair is the current value of the next pair.
C19_PeekedYieldsPairs ==
    op.kind = "peeked" =>
        \A i \in 1..Len(out) :
            out[i] = IF i <= Len(op.S)
                     THEN Some(<<op.S[i], Expected(op.S, i + 1)>>)
                     ELSE None

C19_Witness ==
    /\ op.kind = "peeked"
    /\ op.S = <<10, 20, 30, 40>>
    /\ Len(out) = 5
    /\ out[3] = Some(<<30, Some(40)>>) /\ out[4] = Some(<<40, None>>)
    /\ out[5] = None

\* C20: the step that constructs peeked() or intersperse(sep) advances the
\* upstream exactly once, and the step that constructs windows(size), size >=
\* 1, over an upstream with L elements left advances it exactly min(size, L +
\* 1) times; from then on a step in which the adapter is advanced and returns
\* a present value advances the upstream at most once.
Primed == {"peeked", "intersperse", "windows"}

C20_Step ==
    /\ (op.kind = "source" /\ op'.kind \in {"peeked", "intersperse"}) =>
           heap'[root].adv = heap[root].adv + 1
    /\ (op.kind = "source" /\ op'.kind = "windows") =>
           heap'[root].adv = heap[root].adv + Min(op'.n, Len(op'.S) + 1)
    /\ (op.kind \in Primed /\ Len(out') = Len(out) + 1
           /\ is_some(out'[Len(out')])) =>
           heap'[op.up].adv <= heap[op.up].adv + 1

C20_EagerPriming == [][C20_Step]_vars

C20_Witness ==
    /\ op.kind = "windows" /\ op.n = 3 /\ op.S = <<0, 1>>
    /\ out = <<>> /\ rets = <<>>
    /\ UpAdvances = 3

\* C21 as claimed: right after a map, filter, chain, zip, enumerate, skip, take,
\* step_by or flatten adapter is constructed, no sequence has been advanced.
Fresh == out = <<>> /\ rets = <<>>

C21_OnlyThreePullAtConstruction ==
    (op.kind \in {"map", "filter", "chain", "zip", "enumerate", "skip", "take",
                  "step_by", "flatten"} /\ Fresh) =>
        \A id \in 1..Len(heap) : heap[id].adv = 0

\* C21 as amended: flatten pulls too. Right after a flatten adapter is
\* constructed its outer sequence has been advanced exactly once and no other
\* sequence; right after a map, filter, chain, zip, enumerate, skip, take or
\* step_by adapter is constructed no sequence has been advanced; peeked,
\* intersperse and windows (size >= 1) have advanced their upstream.
C21_FlattenPullsToo ==
    /\ (op.kind \in {"map", "filter", "chain", "zip", "enumerate", "skip",
                     "take", "step_by"} /\ Fresh) =>
           \A id \in 1..Len(heap) : heap[id].adv = 0
    /\ (op.kind = "flatten" /\ Fresh) =>
           \A id \in 1..Len(heap) :
               heap[id].adv = IF id = op.up THEN 1 ELSE 0
    /\ (op.kind \in {"peeked", "intersperse", "windows"} /\ Fresh) =>
           UpAdvances >= 1

C21_Witness ==
    /\ op.kind = "flatten" /\ Fresh
    /\ Len(op.S) = 2
    /\ heap[op.up].adv = 1
    /\ is_some(heap[root].cur)

\* C22: in a chain of a and b, b has not been advanced while the done flag is
\* unset; an advance of the chain with the flag unset advances a once, and
\* advances b (once, returning b's result, and setting the flag) exactly when
\* a returned absent; an advance with the flag set leaves it set, does not
\* advance a, advances b once and returns b's result, exhausted or not.
Last(s) == s[Len(s)]

C22_Step ==
    /\ op'.kind = "chain" =>
           (~heap'[root'].d => heap'[heap'[root'].b].adv = 0)
    /\ (op.kind = "chain" /\ Len(out') = Len(out) + 1) =>
           LET a == heap[root].a
               b == heap[root].b
           IN  IF heap[root].d
               THEN /\ heap'[root].d
                    /\ heap'[a].adv = heap[a].adv
                    /\ heap'[b].adv = heap[b].adv + 1
                    /\ Last(out') = next(heap, b).r
               ELSE /\ heap'[a].adv = heap[a].adv + 1
                    /\ IF is_none(next(heap, a).r)
                       THEN /\ heap'[root].d
                            /\ heap'[b].adv = heap[b].adv + 1
                            /\ Last(out') = next(heap, b).r
                       ELSE /\ ~heap'[root].d
                            /\ heap'[b].adv = heap[b].adv
                            /\ Last(out') = next(heap, a).r

C22_ChainDoneFlag == [][C22_Step]_vars

C22_Witness ==
    /\ op.kind = "chain" /\ Len(op.S) = 2 /\ op.T = <<<<0, 1>>>>
    /\ heap[root].d
    /\ heap[heap[root].a].adv = 3
    /\ heap[heap[root].b].adv = 4
    /\ out = <<Some(op.S[1]), Some(op.S[2]), Some(0), Some(1), None, None>>

\* C23: an advance of zip(a, b) advances a once and b once, whatever they
\* return; a is advanced first (zip of a sequence with itself pairs S[0] with
\* S[1], S[2] with S[3], ...); what the two sides have left after k advances
\* of the zip is what they had less k elements each, so an element whose
\* partner was absent is gone.
C23_Step ==
    /\ (op.kind = "zip" /\ Len(out') = Len(out) + 1) =>
           /\ heap'[heap[root].a].adv = heap[heap[root].a].adv + 1
           /\ heap'[heap[root].b].adv = heap[heap[root].b].adv + 1
    /\ (op.kind = "zip_self" /\ Len(out') = Len(out) + 1) =>
           /\ heap'[heap[root].a].adv = heap[heap[root].a].adv + 2
           /\ heap'[heap[root].b].adv = heap[heap[root].b].adv + 1
    /\ (op'.kind = "zip" /\ rets' = <<>>) =>
           /\ Remaining(heap', heap'[root'].a) = Left(op'.S, Len(out'))
           /\ Remaining(heap', heap'[root'].b) = Left(op'.T, Len(out'))
    /\ (op'.kind = "zip_self" /\ rets' = <<>>) =>
           /\ \A i \in 1..Len(out') :
                  out'[i] = IF 2 * i <= Len(op'.S)
                            THEN Some(<<op'.S[2 * i - 1], op'.S[2 * i]>>)
                            ELSE None
           /\ Remaining(heap', heap'[root'].a) = Left(op'.S, 2 * Len(out'))

C23_ZipAdvancesBoth == [][C23_Step]_vars

C23_Witness ==
    /\ op.kind = "zip" /\ op.S = <<0, 1, 1>> /\ op.T = <<0>>
    /\ out = <<Some(<<0, 0>>), None>>
    /\ heap[heap[root].a].adv = 2 /\ heap[heap[root].b].adv = 2
    /\ Remaining(heap, heap[root].a) = <<1>>

\* C24: absent is permanent. For a map, filter, chain, zip, intersperse,
\* enumerate, peeked, skip, take, step_by (step >= 1), flatten or windows (size
\* >= 1) adapter over sources whose absent is permanent, every advance after
\* one that returned absent returned absent too.
Adapters ==
    {"map", "filter", "chain", "zip", "intersperse", "enumerate", "peeked",
     "skip", "take", "step_by", "flatten", "windows"}

C24_AbsentIsPermanent ==
    op.kind \in Adapters =>
        \A i \in 1..Len(out) : \A j \in i..Len(out) :
            is_none(out[i]) => is_none(out[j])

C24_Witness ==
    /\ op.kind = "step_by" /\ op.n = 2 /\ Len(op.S) = 3
    /\ Len(out) = 4
    /\ is_some(out[2]) /\ is_none(out[3]) /\ is_none(out[4])

\* C25: over a finite upstream an advance of filter, skip, step_by (step >= 1)
\* or flatten returns after finitely many upstream advances: filter after as
\* many as it takes to reach the next element that satisfies the predicate or
\* the end, skip's first advance after exactly n + 1, step_by's first after 1
\* and each later one after exactly step, flatten after at most one more than
\* the outer sequence has left. A next() of filter with a predicate that never
\* holds over an unbounded range does not return: each pass through its body
\* advances the range once more and ends in the recursive call.
RECURSIVE PullsToNext(_, _)
PullsToNext(R, p) ==
    IF R = <<>> THEN 1
    ELSE IF Apply(p, Head(R)) THEN 1
    ELSE 1 + PullsToNext(Tail(R), p)

Pulls == heap'[op.up].adv - heap[op.up].adv

C25_Step ==
    /\ (op.kind \in {"filter", "skip", "step_by", "flatten"}
           /\ Len(out') = Len(out) + 1) =>
           LET R == Left(op.S, heap[op.up].adv - op.adv0)
           IN  CASE op.kind = "filter" -> Pulls = PullsToNext(R, op.T)
                 [] op.kind = "skip" ->
                        Pulls = IF out = <<>> THEN op.n + 1 ELSE 1
                 [] op.kind = "step_by" ->
                        Pulls = IF out = <<>> THEN 1 ELSE op.n
                 [] op.kind = "flatten" -> Pulls <= Len(R) + 1
    /\ (op.kind = "filter_inf.next" /\ op.T = "never") =>
           /\ op'.kind = "filter_inf.next"
           /\ out' = out
           /\ Pulls = 1

C25_LoopsTerminateOverFinite == [][C25_Step]_vars

C25_Witness ==
    /\ op.kind = "filter_inf.next" /\ op.T = "never"
    /\ out = <<>>
    /\ heap[op.up].adv - op.n = 5

\* C26: in every reachable state Option.none() returns an Option that is
\* absent, and every Option the client got from Option.none() or from an
\* exhausted Eaterator, and did not itself call replace on, is absent.
C26_ReplaceChangesOneOption ==
    /\ Option_is_none(heap, Option_none(heap).id)
    /\ \A i \in 1..Len(out) :
           (rets[i].from \in {"none", "next"} /\ ~rets[i].replaced) =>
               Option_is_none(heap, out[i])

\* C27: windows(size) with size >= 0 is constructed without an error, no
\* advance on it raises, each advance returns absent or a present list of
\* exactly size elements, and its buffer never holds more than size elements.
C27_WindowsNeverFails ==
    op.call = "windows" /\ op.n >= 0 =>
        /\ op.kind = "windows"
        /\ \A i \in 1..Len(out) :
               IF is_raised(out[i]) THEN FALSE
               ELSE is_none(out[i]) \/ Len(unwrap_(out[i])) = op.n
        /\ Len(heap[root].d) <= op.n

====
